---- MODULE Spec2Model ----
(***************************************************************************)
(* FX rate scrapers (src/src/scrappers): BaseScraper.scrape and its        *)
(* stages for the two institution variants, BOTScraper and CTBCScraper,    *)
(* together with the pure helpers validate_rate and _parse_rate.           *)
(*                                                                         *)
(* Python values are tagged records: [t |-> type name, v |-> payload].     *)
(* A str is a sequence of one-character strings, a list a sequence of      *)
(* values, a dict a function from keys to values.                          *)
(***************************************************************************)
EXTENDS Integers, Sequences, FiniteSets, TLC

VARIABLES
    variant,      \* which scraper object this is: "BOT" or "CTBC"
    pc,           \* position inside scrape(): idle, parse, validate, except, returned, raised
    response,     \* fetch_data()'s local response: what requests.get did
    html,         \* scrape()'s local html (the fetched document)
    table,        \* CTBCScraper.parse_rates' local table: which table the chain found
    rates,        \* scrape()'s local rates (what parse_rates returned)
    exc,          \* the exception a stage raised, as it reaches scrape()'s except clauses
    outcome,      \* what scrape() handed to its caller: a list or an exception
    calls,        \* the stage methods invoked so far in this invocation, in order
    rate,         \* argument of the last direct validate_rate call
    verdict,      \* its result
    cell,         \* argument of the last direct _parse_rate call
    parsed        \* its result

vars == <<variant, pc, response, html, table, rates, exc, outcome, calls,
          rate, verdict, cell, parsed>>

scrapeVars == <<variant, pc, response, html, table, rates, exc, outcome, calls>>

-----------------------------------------------------------------------------
(* Python values *)

None == [t |-> "NoneType"]

Str(s) == [t |-> "str", v |-> s]

List(l) == [t |-> "list", v |-> l]

Dict(d) == [t |-> "dict", v |-> d]

Float(x) == [t |-> "float", v |-> x]

Bool(b) == [t |-> "bool", v |-> b]

\* The characters of the dictionary keys the code names.
KeyChars ==
    [currency  |-> <<"c","u","r","r","e","n","c","y">>,
     rates     |-> <<"r","a","t","e","s">>,
     timestamp |-> <<"t","i","m","e","s","t","a","m","p">>,
     en        |-> <<"e","n">>,
     zh        |-> <<"z","h">>,
     cash      |-> <<"c","a","s","h">>,
     spot      |-> <<"s","p","o","t">>,
     buy       |-> <<"b","u","y">>,
     sell      |-> <<"s","e","l","l">>]

\* sub occurs in s as a contiguous run (Python's `sub in s` on str).
IsSubstring(sub, s) ==
    \E i \in 0..(Len(s) - Len(sub)) :
        \A j \in 1..Len(sub) : s[i + j] = sub[j]

\* Python's `k in x` for a str key k: "True", "False", or "TypeError" when x
\* is no container.
PyIn(k, x) ==
    CASE x.t = "dict" -> IF k \in DOMAIN x.v THEN "True" ELSE "False"
      [] x.t = "list" -> IF \E i \in 1..Len(x.v) :
                                x.v[i].t = "str" /\ x.v[i].v = KeyChars[k]
                         THEN "True" ELSE "False"
      [] x.t = "str"  -> IF IsSubstring(KeyChars[k], x.v) THEN "True" ELSE "False"
      [] OTHER        -> "TypeError"

\* all(k in x for k in keys): the generator stops at the first False; a
\* TypeError leaves it.
RECURSIVE PyAllIn(_, _)
PyAllIn(keys, x) ==
    IF keys = <<>> THEN "True"
    ELSE LET r == PyIn(Head(keys), x)
         IN  IF r = "True" THEN PyAllIn(Tail(keys), x) ELSE r

\* x[k] for a str key k: defined on a dict that has k; a KeyError or
\* TypeError otherwise.
PyCanIndex(x, k) == x.t = "dict" /\ k \in DOMAIN x.v

-----------------------------------------------------------------------------
(* BaseScraper.validate_rate *)

required_fields == <<"currency", "rates", "timestamp">>

\* The body of validate_rate's try block: "True", "False", or the name of the
\* exception that leaves it.
validate_rate_try(r) ==
    LET fields == PyAllIn(required_fields, r)
    IN
    IF fields # "True" THEN fields
    ELSE IF ~PyCanIndex(r, "currency") THEN "TypeError"
    ELSE IF r.v["currency"].t # "dict" THEN "False"
    ELSE IF PyAllIn(<<"en", "zh">>, r.v["currency"]) # "True" THEN "False"
    ELSE IF ~PyCanIndex(r, "rates") THEN "TypeError"
    ELSE IF r.v["rates"].t # "dict" THEN "False"
    ELSE IF PyAllIn(<<"cash", "spot">>, r.v["rates"]) # "True" THEN "False"
    ELSE LET cash == PyAllIn(<<"buy", "sell">>, r.v["rates"].v["cash"])
             spot == PyAllIn(<<"buy", "sell">>, r.v["rates"].v["spot"])
         IN  IF cash # "True" THEN cash
             ELSE spot

\* validate_rate as it would be if a null rate value were refused like a
\* missing key.
validate_rate_requiring_values(r) ==
    /\ validate_rate_try(r) = "True"
    /\ \A rt \in {"cash", "spot"} :
          r.v["rates"].v[rt].t = "dict"
          => \A k \in {"buy", "sell"} : r.v["rates"].v[rt].v[k] # None

validate_rate(r) == validate_rate_try(r) = "True"

-----------------------------------------------------------------------------
(* Text helpers: str.strip, str.lower, str.replace(',', ''), float(str) *)

Whitespace == {" ", "\t"}

RECURSIVE LStrip(_)
LStrip(s) == IF s # <<>> /\ Head(s) \in Whitespace THEN LStrip(Tail(s)) ELSE s

RECURSIVE RStrip(_)
RStrip(s) ==
    IF s # <<>> /\ s[Len(s)] \in Whitespace
    THEN RStrip(SubSeq(s, 1, Len(s) - 1))
    ELSE s

Strip(s) == RStrip(LStrip(s))

\* s.replace(c, ''): every occurrence of the character c removed.
Remove(s, c) == SelectSeq(s, LAMBDA x : x # c)

UpperCase == <<"A","B","C","D","E","F","G","H","I","J","K","L","M",
               "N","O","P","Q","R","S","T","U","V","W","X","Y","Z">>

LowerCase == <<"a","b","c","d","e","f","g","h","i","j","k","l","m",
               "n","o","p","q","r","s","t","u","v","w","x","y","z">>

LowerChar(c) ==
    IF \E i \in 1..Len(UpperCase) : UpperCase[i] = c
    THEN LowerCase[CHOOSE i \in 1..Len(UpperCase) : UpperCase[i] = c]
    ELSE c

Lower(s) == [i \in 1..Len(s) |-> LowerChar(s[i])]

DigitChars == <<"0","1","2","3","4","5","6","7","8","9">>

IsDigit(c) == \E d \in 1..Len(DigitChars) : DigitChars[d] = c

DigitVal(c) == (CHOOSE d \in 1..Len(DigitChars) : DigitChars[d] = c) - 1

\* The index just past the longest  digit (["_"] digit)*  that starts at i;
\* i itself when s[i] is no digit.
RECURSIVE DigitPartEnd(_, _)
DigitPartEnd(s, i) ==
    IF i > Len(s) \/ ~IsDigit(s[i]) THEN i
    ELSE IF i + 1 <= Len(s) /\ IsDigit(s[i + 1]) THEN DigitPartEnd(s, i + 1)
    ELSE IF i + 2 <= Len(s) /\ s[i + 1] = "_" /\ IsDigit(s[i + 2])
         THEN DigitPartEnd(s, i + 2)
    ELSE i + 1

\* The number written by the digits of s[from..to-1], underscores skipped.
RECURSIVE DigitsValue(_, _, _)
DigitsValue(s, from, to) ==
    IF to <= from THEN 0
    ELSE IF s[to - 1] = "_" THEN DigitsValue(s, from, to - 1)
    ELSE 10 * DigitsValue(s, from, to - 1) + DigitVal(s[to - 1])

DigitsCount(s, from, to) ==
    Cardinality({i \in from..(to - 1) : IsDigit(s[i])})

RECURSIVE Pow10(_)
Pow10(n) == IF n <= 0 THEN 1 ELSE 10 * Pow10(n - 1)

\* mant / 10^scale with the trailing zeros of mant dropped, so that equal
\* decimal values have equal representations.
RECURSIVE Normalize(_, _, _)
Normalize(neg, mant, scale) ==
    IF mant = 0 THEN [kind |-> "finite", neg |-> neg, mant |-> 0, scale |-> 0]
    ELSE IF mant % 10 = 0 THEN Normalize(neg, mant \div 10, scale - 1)
    ELSE [kind |-> "finite", neg |-> neg, mant |-> mant, scale |-> scale]

ValueError == [kind |-> "ValueError"]

\* Python's float(s) on a str: surrounding whitespace is ignored, case is
\* ignored, an optional sign, then "inf", "infinity", "nan" or a decimal
\* number with an optional exponent; ValueError for anything else. The
\* scan goes left to right, each step handing what it found to the next.

\* The digits are read: intEnd, fracLo, fracEnd bound the integer and the
\* fraction digits, expLo and expEnd the exponent digits (equal when the text
\* has no exponent).
float_value(body, neg, intEnd, fracLo, fracEnd, expNeg, expLo, expEnd) ==
    Normalize(neg,
              DigitsValue(body, 1, intEnd) * Pow10(DigitsCount(body, fracLo, fracEnd))
                  + DigitsValue(body, fracLo, fracEnd),
              DigitsCount(body, fracLo, fracEnd)
                  + (IF expNeg THEN DigitsValue(body, expLo, expEnd)
                     ELSE 0 - DigitsValue(body, expLo, expEnd)))

\* Nothing may follow the number.
float_end(body, neg, intEnd, fracLo, fracEnd, expNeg, expLo, expEnd) ==
    IF expEnd = Len(body) + 1
    THEN float_value(body, neg, intEnd, fracLo, fracEnd, expNeg, expLo, expEnd)
    ELSE ValueError

\* The exponent's digits, from expLo: there must be one.
float_exp_digits(body, neg, intEnd, fracLo, fracEnd, expNeg, expLo) ==
    IF DigitPartEnd(body, expLo) > expLo
    THEN float_end(body, neg, intEnd, fracLo, fracEnd, expNeg, expLo,
                   DigitPartEnd(body, expLo))
    ELSE ValueError

\* An optional exponent: "e", an optional sign, digits.
float_exp(body, neg, intEnd, fracLo, fracEnd) ==
    IF fracEnd <= Len(body) /\ body[fracEnd] = "e"
    THEN float_exp_digits(body, neg, intEnd, fracLo, fracEnd,
             fracEnd + 1 <= Len(body) /\ body[fracEnd + 1] = "-",
             IF fracEnd + 1 <= Len(body) /\ body[fracEnd + 1] \in {"+", "-"}
             THEN fracEnd + 2 ELSE fracEnd + 1)
    ELSE float_end(body, neg, intEnd, fracLo, fracEnd, FALSE, fracEnd, fracEnd)

\* The fraction's digits end at fracEnd; a number has a digit before or
\* after its point.
float_frac(body, neg, intEnd, fracLo, fracEnd) ==
    IF intEnd > 1 \/ fracEnd > fracLo
    THEN float_exp(body, neg, intEnd, fracLo, fracEnd)
    ELSE ValueError

\* The integer digits end at intEnd; a point may follow.
float_point(body, neg, intEnd) ==
    IF intEnd <= Len(body) /\ body[intEnd] = "."
    THEN float_frac(body, neg, intEnd, intEnd + 1, DigitPartEnd(body, intEnd + 1))
    ELSE float_frac(body, neg, intEnd, intEnd, intEnd)

\* The text after the sign.
float_abs(body, neg) ==
    IF body \in {<<"i","n","f">>, <<"i","n","f","i","n","i","t","y">>}
        THEN [kind |-> "inf", neg |-> neg]
    ELSE IF body = <<"n","a","n">> THEN [kind |-> "nan"]
    ELSE float_point(body, neg, DigitPartEnd(body, 1))

\* The stripped, lower-cased text.
float_signed(t) ==
    IF t # <<>> /\ t[1] \in {"+", "-"}
    THEN float_abs(Tail(t), t[1] = "-")
    ELSE float_abs(t, FALSE)

float(s) == float_signed(Lower(Strip(s)))

-----------------------------------------------------------------------------
(* _parse_rate: BaseScraper's (used by BOTScraper) and CTBCScraper's *)

Return(x) == [raised |-> FALSE, value |-> x]

Raise(name) == [raised |-> TRUE, name |-> name]

\* return float(cleaned.replace(',', '')), f being what float() gave
parse_rate_float(f) ==
    IF f = ValueError THEN Raise("ValueError") ELSE Return(Float(f))

\* The "no quote" test on the stripped text, then the conversion.
parse_rate_cleaned(cleaned, sentinels) ==
    IF cleaned \in sentinels THEN Return(None)
    ELSE parse_rate_float(float(Remove(cleaned, ",")))

\* The try block of a _parse_rate whose "no quote" list is sentinels.
parse_rate_try(rate_str, sentinels) ==
    IF rate_str.t # "str" THEN Raise("AttributeError")
    ELSE parse_rate_cleaned(Strip(rate_str.v), sentinels)

\* except (ValueError, AttributeError): return None
parse_rate_except(r) ==
    IF r.raised /\ r.name \in {"ValueError", "AttributeError"}
    THEN Return(None)
    ELSE r

BaseScraper_sentinels == {<<"-">>, <<"N","/","A">>, <<>>, <<"-","-","-","-">>}

BaseScraper_parse_rate(rate_str) ==
    parse_rate_except(parse_rate_try(rate_str, BaseScraper_sentinels))

CTBCScraper_sentinels ==
    {<<"-">>, <<"N","/","A">>, <<>>, <<"-","-","-","-">>, <<"-","-","-">>}

CTBCScraper_parse_rate(rate_str) ==
    parse_rate_except(parse_rate_try(rate_str, CTBCScraper_sentinels))


\* The _parse_rate a scraper object of class v resolves to.
parse_rate_of(v, rate_str) ==
    IF v = "CTBC" THEN CTBCScraper_parse_rate(rate_str)
    ELSE BaseScraper_parse_rate(rate_str)

-----------------------------------------------------------------------------
(* Exceptions and messages *)

\* A message is the sequence of the pieces an f-string joins.
Exc(type, msg) == [type |-> type, msg |-> msg]

ScraperExceptionTypes ==
    {"ScraperException", "FetchError", "ParseError", "ValidationError"}

RequestExceptionTypes ==
    {"RequestException", "HTTPError", "ConnectionError", "Timeout"}

RaiseExc(e) == [raised |-> TRUE, exc |-> e]

institution_name(v) == IF v = "BOT" THEN "Bank of Taiwan" ELSE "CTBC Bank"

-----------------------------------------------------------------------------
(* Documents: what BeautifulSoup sees in the fetched text *)

\* An element, by its child nodes: text nodes (str) and elements.
Tag(contents_) == [t |-> "Tag", contents |-> contents_]

\* The empty response body.
EmptyHtml == Str(<<>>)

\* A non-empty response body whose markup holds these tables, in order.
Document(tables) == [t |-> "str", markup |-> tables]

\* str.split(sep) for a one-character sep: the pieces between occurrences.
RECURSIVE SplitOn(_, _)
SplitOn(s, sep) ==
    IF \A i \in 1..Len(s) : s[i] # sep THEN <<s>>
    ELSE LET i == CHOOSE k \in 1..Len(s) :
                      s[k] = sep /\ \A m \in 1..(k - 1) : s[m] # sep
         IN  <<SubSeq(s, 1, i - 1)>> \o SplitOn(SubSeq(s, i + 1, Len(s)), sep)

\* str.split(): the runs of non-whitespace characters.
RECURSIVE SplitWS(_)
SplitWS(s) ==
    LET t == LStrip(s)
    IN  IF t = <<>> THEN <<>>
        ELSE LET n == IF \A i \in 1..Len(t) : t[i] \notin Whitespace
                      THEN Len(t)
                      ELSE (CHOOSE k \in 1..Len(t) :
                                t[k] \in Whitespace
                                /\ \A m \in 1..(k - 1) : t[m] \notin Whitespace) - 1
             IN  <<SubSeq(t, 1, n)>> \o SplitWS(SubSeq(t, n + 1, Len(t)))

RowRecord(rate_) == [kind |-> "record", rate |-> rate_]

RowSkip == [kind |-> "skip"]

RowThrow(name) == [kind |-> "throw", name |-> name]

\* The dict both parsers build from a row's currency names and its four
\* parsed rate cells (cells[i] is what _parse_rate gave for tds[i]).
rate_dict_of(zh, en, cells, now) ==
    IF \E i \in DOMAIN cells : cells[i].raised
    THEN RowThrow(cells[CHOOSE i \in DOMAIN cells : cells[i].raised].name)
    ELSE RowRecord(Dict([
             currency  |-> Dict([zh |-> Str(zh), en |-> Str(en)]),
             rates     |-> Dict([
                 cash |-> Dict([buy |-> cells[2].value, sell |-> cells[3].value]),
                 spot |-> Dict([buy |-> cells[4].value, sell |-> cells[5].value])]),
             timestamp |-> Str(now)]))

rate_dict(v, zh, en, tds, now) ==
    rate_dict_of(zh, en, [i \in 2..5 |-> parse_rate_of(v, Str(tds[i]))], now)

\* "Validate before adding": a built record that validate_rate rejects is
\* logged and left out.
validated_row(r) ==
    IF r.kind # "record" THEN r
    ELSE IF validate_rate(r.rate) THEN r
    ELSE RowSkip

\* rates.append for each row that yielded a record, in row order; results
\* maps the indices lo..hi of the rows looped over to what each gave.
\* The row loop as it would be without the per-row try/continue: the first
\* row that yields no record ends it.
RECURSIVE collect_until_malformed(_, _, _)
collect_until_malformed(results, lo, hi) ==
    IF lo > hi \/ results[lo].kind # "record" THEN <<>>
    ELSE <<results[lo].rate>> \o collect_until_malformed(results, lo + 1, hi)

RECURSIVE collect_from(_, _, _)
collect_from(results, lo, hi) ==
    IF lo > hi THEN <<>>
    ELSE (IF results[lo].kind = "record" THEN <<results[lo].rate>> ELSE <<>>)
         \o collect_from(results, lo + 1, hi)

collect(results) ==
    IF DOMAIN results = {} THEN <<>>
    ELSE collect_from(results,
                      CHOOSE i \in DOMAIN results : \A j \in DOMAIN results : i <= j,
                      CHOOSE i \in DOMAIN results : \A j \in DOMAIN results : i >= j)

-----------------------------------------------------------------------------
(* BOTScraper *)

\* The body of the per-row try block.
BOTScraper_row(row, now) ==
    IF row.cur.t = "NoneType" THEN RowSkip
    ELSE IF row.cur.contents = <<>> THEN RowThrow("IndexError")
    ELSE LET first == row.cur.contents[1]
             last  == row.cur.contents[Len(row.cur.contents)]
         IN
         IF first.t # "str" \/ last.t # "str" THEN RowThrow("TypeError")
         ELSE IF Len(SplitOn(last.v, "(")) < 2 THEN RowThrow("IndexError")
         ELSE IF Len(row.tds) < 5 THEN RowSkip
         ELSE validated_row(rate_dict("BOT",
                  Strip(SplitOn(first.v, "(")[1]),
                  Remove(SplitOn(last.v, "(")[2], ")"),
                  row.tds, now))

RECURSIVE FlatRows(_)
FlatRows(tables) ==
    IF tables = <<>> THEN <<>> ELSE Head(tables).rows \o FlatRows(Tail(tables))

\* soup.select('.table tbody tr')
BOTScraper_select_rows(doc) ==
    FlatRows(SelectSeq(doc.markup,
                       LAMBDA tb : tb.tbody /\ \E i \in 1..Len(tb.class) :
                                                   tb.class[i] = <<"t","a","b","l","e">>))

\* if not rates: raise ParseError("No valid rates found in the page")
parse_rates_result(out) ==
    IF out = <<>>
    THEN RaiseExc(Exc("ParseError", <<"No valid rates found in the page">>))
    ELSE Return(out)

\* The row loop and what follows it.
BOTScraper_parse_rows(rows, now) ==
    IF rows = <<>>
    THEN RaiseExc(Exc("ParseError", <<"Could not find exchange rate table">>))
    ELSE parse_rates_result(
             collect([i \in 1..Len(rows) |-> BOTScraper_row(rows[i], now)]))

\* The body of parse_rates' try block.
BOTScraper_parse_rates_try(doc, now) ==
    BOTScraper_parse_rows(BOTScraper_select_rows(doc), now)

\* parse_rates' except clause as it would be raising a plain Exception.
parse_rates_except_untyped(r) ==
    IF r.raised
    THEN RaiseExc(Exc("Exception", <<"HTML parsing failed: ">> \o r.exc.msg))
    ELSE r

\* except Exception as e: raise ParseError(f"HTML parsing failed: {str(e)}")
parse_rates_except(r) ==
    IF r.raised
    THEN RaiseExc(Exc("ParseError", <<"HTML parsing failed: ">> \o r.exc.msg))
    ELSE r

BOTScraper_parse_rates(doc, now) ==
    parse_rates_except(BOTScraper_parse_rates_try(doc, now))

-----------------------------------------------------------------------------
(* CTBCScraper *)

IdFx == "table_deposit_fxrate_content"

ClassFx == <<"t","a","b","l","e","_","d","e","p","o","s","i","t","_",
             "f","x","r","a","t","e","_","c","o","n","t","e","n","t">>

ClassRateTable == <<"r","a","t","e","-","t","a","b","l","e">>

\* soup.find('table', ...): the index of the first table that matches, 0
\* when none does; matches[i] tells whether the i-th table does.
FindTable(matches) ==
    IF \E i \in 1..Len(matches) : matches[i]
    THEN CHOOSE i \in 1..Len(matches) :
             matches[i] /\ \A m \in 1..(i - 1) : ~matches[m]
    ELSE 0

\* The tables of the document, in document order.
Tables(doc) == 1..Len(doc.markup)

HasClass(tb, c) == \E i \in 1..Len(tb.class) : tb.class[i] = c

\* class_=lambda x: x and 'rate' in x.lower()
HasRateClass(tb) ==
    \E i \in 1..Len(tb.class) :
        IsSubstring(<<"r","a","t","e">>, Lower(tb.class[i]))

\* a or b for two results of find: b only when a found nothing.
OrElse(a, b) == IF a # 0 THEN a ELSE b

\* The location as it would be with one match attempt in place of the chain:
\* the first table that any of the selectors matches.
CTBCScraper_find_first_match(doc) ==
    FindTable([i \in Tables(doc) |->
        \/ doc.markup[i].id = IdFx
        \/ HasClass(doc.markup[i], ClassFx)
        \/ HasClass(doc.markup[i], ClassRateTable)
        \/ HasRateClass(doc.markup[i])])

\* The `or` chain of the four selectors: the first that finds a table.
CTBCScraper_find_table(doc) ==
    OrElse(FindTable([i \in Tables(doc) |-> doc.markup[i].id = IdFx]),
    OrElse(FindTable([i \in Tables(doc) |-> HasClass(doc.markup[i], ClassFx)]),
    OrElse(FindTable([i \in Tables(doc) |-> HasClass(doc.markup[i], ClassRateTable)]),
           FindTable([i \in Tables(doc) |-> HasRateClass(doc.markup[i])]))))

\* The currency names are the first two words of the first td.
CTBCScraper_row_named(currency_parts, tds, now) ==
    IF Len(currency_parts) >= 2
    THEN validated_row(rate_dict("CTBC", currency_parts[2], currency_parts[1],
                                 tds, now))
    ELSE RowSkip

\* The body of the per-row try block.
CTBCScraper_row(row, now) ==
    IF Len(row.tds) < 5 THEN RowSkip
    ELSE CTBCScraper_row_named(SplitWS(Strip(row.tds[1])), row.tds, now)

\* for row in rows[1:], and what follows the loop.
CTBCScraper_parse_rows(rows, now) ==
    parse_rates_result(
        collect([i \in 2..Len(rows) |-> CTBCScraper_row(rows[i], now)]))

\* The table the chain found (0: none), then its rows.
CTBCScraper_parse_table(doc, found, now) ==
    IF found = 0
    THEN RaiseExc(Exc("ParseError", <<"Could not find exchange rate table">>))
    ELSE CTBCScraper_parse_rows(doc.markup[found].rows, now)

\* The body of parse_rates' try block.
CTBCScraper_parse_rates_try(doc, now) ==
    CTBCScraper_parse_table(doc, CTBCScraper_find_table(doc), now)

CTBCScraper_parse_rates(doc, now) ==
    parse_rates_except(CTBCScraper_parse_rates_try(doc, now))

parse_rates(v, doc, now) ==
    IF v = "BOT" THEN BOTScraper_parse_rates(doc, now)
    ELSE CTBCScraper_parse_rates(doc, now)

-----------------------------------------------------------------------------
(* fetch_data (the same body in both classes, headers apart) *)

\* fetch_data's try block as it would be without response.raise_for_status().
fetch_data_try_unchecked(resp) ==
    IF resp.kind = "raise" THEN RaiseExc(resp.exc) ELSE Return(resp.text)

\* requests.get followed by raise_for_status and response.text.
fetch_data_try(resp) ==
    IF resp.kind = "raise" THEN RaiseExc(resp.exc)
    ELSE IF resp.status >= 400
        THEN RaiseExc(Exc("HTTPError", resp.reason))
    ELSE Return(resp.text)

\* except requests.RequestException as e:
\*     raise FetchError(f"HTTP request failed: {str(e)}")
fetch_data_except(r) ==
    IF r.raised /\ r.exc.type \in RequestExceptionTypes
    THEN RaiseExc(Exc("FetchError", <<"HTTP request failed: ">> \o r.exc.msg))
    ELSE r

fetch_data(resp) == fetch_data_except(fetch_data_try(resp))

-----------------------------------------------------------------------------
(* Initial state: a scraper object after construction, nothing called yet *)

Unbound == [t |-> "unbound"]

Variants == {"BOT", "CTBC"}

Init ==
    /\ variant \in Variants
    /\ pc = "idle"
    /\ response = Unbound
    /\ html = Unbound
    /\ table = Unbound
    /\ rates = Unbound
    /\ exc = Unbound
    /\ outcome = Unbound
    /\ calls = <<>>
    /\ rate = Unbound
    /\ verdict = Unbound
    /\ cell = Unbound
    /\ parsed = Unbound

-----------------------------------------------------------------------------
(* The pages and responses the network may deliver *)

MaxTables == 2

\* Rows in one page, over all its tables.
MaxRows == 2

Timestamps == {<<"t","1">>, <<"t","2">>}

Row(cur_, tds_) == [cur |-> cur_, tds |-> tds_]

TextUSD == <<"m","e","i"," ","(","U","S","D",")">>

TextJPY == <<" ","r","i","(","J","P","Y",")">>

Quoted == <<<<"3","1",".","5">>, <<"3","2",".","1","7">>,
            <<"1",",","2","3","4",".","5","6">>, <<" ","3","2"," ">>>>

Unquoted == <<<<"-">>, <<"N","/","A">>, <<"0",".","2","1">>, <<"-","-","-">>,
              <<"x">>>>

\* A row of the Bank of Taiwan table: the contents of its
\* '.currency .print_show' element (None when it has none) and its td texts.
BOTRows ==
    {Row(Tag(<<Str(TextUSD)>>), <<TextUSD>> \o Quoted),
     Row(Tag(<<Str(TextJPY), Tag(<<>>), Str(TextJPY)>>), <<TextJPY>> \o Unquoted),
     Row(Tag(<<Str(TextUSD)>>), <<TextUSD, <<"3","1",".","5">>, <<"3","2">>>>),
     Row(Tag(<<Str(<<"m","e","i">>)>>), <<<<"m","e","i">>>> \o Quoted),
     Row(None, <<<<>>>> \o Quoted)}

\* A row of the CTBC table: no '.print_show' element is looked for, the
\* first td text names the currency.
CTBCRows ==
    {Row(None, <<<<"U","S","D"," ","m","e","i">>>> \o Quoted),
     Row(None, <<<<" ","J","P","Y"," "," ","r","i"," ">>>> \o Unquoted),
     Row(None, <<<<"U","S","D"," ","m","e","i">>, <<"3","1",".","5">>, <<"3","2">>>>),
     Row(None, <<<<"U","S","D">>>> \o Quoted)}

Rows(v) == IF v = "BOT" THEN BOTRows ELSE CTBCRows

TableAttr(id_, class_, tbody_) == [id |-> id_, class |-> class_, tbody |-> tbody_]

BOTAttrs ==
    {TableAttr("", <<<<"t","a","b","l","e">>, <<"x">>>>, TRUE),
     TableAttr("", <<<<"n","a","v">>>>, TRUE)}

CTBCAttrs ==
    {TableAttr(IdFx, <<>>, TRUE),
     TableAttr("", <<ClassFx>>, TRUE),
     TableAttr("", <<<<"x">>, ClassRateTable>>, FALSE),
     TableAttr("", <<<<"E","x","R","A","T","E","s">>>>, TRUE),
     TableAttr("nav", <<<<"n","a","v">>>>, TRUE)}

Attrs(v) == IF v = "BOT" THEN BOTAttrs ELSE CTBCAttrs

\* lens[1] + ... + lens[i]
RECURSIVE SumTo(_, _)
SumTo(lens, i) == IF i = 0 THEN 0 ELSE lens[i] + SumTo(lens, i - 1)

\* The page whose i-th table has the attributes attrs[i] and the next lens[i]
\* of the rows.
PageOf(attrs, lens, rows_) ==
    Document([i \in DOMAIN attrs |->
        [id    |-> attrs[i].id,
         class |-> attrs[i].class,
         tbody |-> attrs[i].tbody,
         rows  |-> SubSeq(rows_, SumTo(lens, i - 1) + 1, SumTo(lens, i))]])

Response(status_, reason_, text_) ==
    [kind |-> "response", status |-> status_, reason |-> reason_, text |-> text_]

\* What else requests.get does: an empty body, an error status, or an
\* exception, of the requests hierarchy or not.
OtherResponses ==
    {Response(200, <<"OK">>, EmptyHtml),
     Response(500, <<"500 Server Error">>, EmptyHtml),
     Response(404, <<"404 Client Error">>, Document(<<>>)),
     [kind |-> "raise", exc |-> Exc("ConnectionError", <<"Connection refused">>)],
     [kind |-> "raise", exc |-> Exc("Timeout", <<"Read timed out">>)],
     [kind |-> "raise", exc |-> Exc("MemoryError", <<"out of memory">>)]}

-----------------------------------------------------------------------------
(* BaseScraper.scrape *)

\* if not html: raise FetchError(...), r being what fetch_data gave
scrape_check_html(v, r) ==
    IF r.raised THEN r
    ELSE IF r.value = None \/ r.value = EmptyHtml
        THEN RaiseExc(Exc("FetchError",
                 <<"Failed to fetch data from ", institution_name(v)>>))
    ELSE r

\* html = self.fetch_data(); if not html: raise FetchError(...)
scrape_fetch(v, resp) == scrape_check_html(v, fetch_data(resp))

\* if not rates: raise ParseError(...), r being what parse_rates gave
scrape_check_rates(v, r) ==
    IF r.raised THEN r
    ELSE IF r.value = <<>>
        THEN RaiseExc(Exc("ParseError",
                 <<"Failed to parse rates from ", institution_name(v)>>))
    ELSE r

\* rates = self.parse_rates(html); if not rates: raise ParseError(...)
scrape_parse(v, doc, now) == scrape_check_rates(v, parse_rates(v, doc, now))

\* if not valid_rates: raise ValidationError(...); return valid_rates
scrape_check_valid(v, valid_rates) ==
    IF valid_rates = <<>>
    THEN RaiseExc(Exc("ValidationError",
             <<"No valid rates found from ", institution_name(v)>>))
    ELSE Return(valid_rates)

\* The validation loop and the check of what it kept.
scrape_validate(v, rs) == scrape_check_valid(v, SelectSeq(rs, validate_rate))

\* scrape's except clauses as they would be with a bare `raise` in both.
scrape_reraise(v, e) == e

\* scrape's second except clause as it would be without {str(e)} in the
\* message.
scrape_except_bare(v, e) ==
    IF e.type \in ScraperExceptionTypes THEN e
    ELSE Exc("ScraperException", <<"Failed to scrape ", institution_name(v)>>)

\* except ScraperException: raise
\* except Exception as e: raise ScraperException(f"Failed to scrape ...: {e}")
scrape_except(v, e) ==
    IF e.type \in ScraperExceptionTypes THEN e
    ELSE Exc("ScraperException",
             <<"Failed to scrape ", institution_name(v), ": ">> \o e.msg)

\* A caller invokes scrape() on the object; a finished invocation leaves
\* nothing behind.
ScrapeCall ==
    /\ pc \in {"idle", "returned", "raised"}
    /\ pc' = "fetch"
    /\ response' = Unbound
    /\ html' = Unbound
    /\ table' = Unbound
    /\ rates' = Unbound
    /\ exc' = Unbound
    /\ outcome' = Unbound
    /\ calls' = <<>>
    /\ UNCHANGED <<variant, rate, verdict, cell, parsed>>

\* The fetch stage as it would be with one retry: a first failure sends
\* control back to the fetch.
AfterFetch_retrying(r) ==
    /\ html' = IF r.raised THEN Unbound ELSE r.value
    /\ exc' = IF r.raised THEN r.exc ELSE Unbound
    /\ pc' = IF ~r.raised THEN "parse"
             ELSE IF calls = <<>> THEN "fetch"
             ELSE "except"

\* Control leaves the fetch stage with r: on to parsing, or to the except
\* clauses.
AfterFetch(r) ==
    /\ html' = IF r.raised THEN Unbound ELSE r.value
    /\ exc' = IF r.raised THEN r.exc ELSE Unbound
    /\ pc' = IF r.raised THEN "except" ELSE "parse"

\* response = requests.get(...), and what fetch_data and scrape make of it.
Fetched(resp) ==
    /\ response' = resp
    /\ AfterFetch(scrape_fetch(variant, resp))

\* requests.get answers 200 with a page of at most MaxTables tables that hold
\* at most MaxRows rows together, or does one of OtherResponses.
ScrapeFetch ==
    /\ pc = "fetch"
    /\ \/ \E k \in 0..MaxTables :
             \E lens \in [1..k -> 0..MaxRows] :
                /\ SumTo(lens, k) <= MaxRows
                /\ \E attrs \in [1..k -> Attrs(variant)] :
                      \E rows_ \in [1..SumTo(lens, k) -> Rows(variant)] :
                          Fetched(Response(200, <<"OK">>, PageOf(attrs, lens, rows_)))
       \/ \E resp \in OtherResponses : Fetched(resp)
    /\ calls' = Append(calls, "fetch_data")
    /\ UNCHANGED <<variant, table, rates, outcome, rate, verdict, cell, parsed>>

AfterParse(r) ==
    /\ rates' = IF r.raised THEN Unbound ELSE List(r.value)
    /\ exc' = IF r.raised THEN r.exc ELSE Unbound
    /\ pc' = IF r.raised THEN "except" ELSE "validate"

ScrapeParse ==
    /\ pc = "parse"
    /\ \E now \in Timestamps : AfterParse(scrape_parse(variant, html, now))
    /\ table' = IF variant = "CTBC" THEN CTBCScraper_find_table(html) ELSE Unbound
    /\ calls' = Append(calls, "parse_rates")
    /\ UNCHANGED <<variant, response, html, outcome, rate, verdict, cell, parsed>>

AfterValidate(r) ==
    /\ exc' = IF r.raised THEN r.exc ELSE Unbound
    /\ outcome' = IF r.raised THEN Unbound ELSE r
    /\ pc' = IF r.raised THEN "except" ELSE "returned"

ScrapeValidate ==
    /\ pc = "validate"
    /\ AfterValidate(scrape_validate(variant, rates.v))
    /\ calls' = calls \o [i \in 1..Len(rates.v) |-> "validate_rate"]
    /\ UNCHANGED <<variant, response, html, table, rates, rate, verdict, cell,
                   parsed>>

ScrapeExcept ==
    /\ pc = "except"
    /\ outcome' = RaiseExc(scrape_except(variant, exc))
    /\ pc' = "raised"
    /\ UNCHANGED <<variant, response, html, table, rates, exc, calls, rate,
                   verdict, cell, parsed>>

Next ==
    \/ ScrapeCall
    \/ ScrapeFetch
    \/ ScrapeParse
    \/ ScrapeValidate
    \/ ScrapeExcept

Spec == Init /\ [][Next]_vars

-----------------------------------------------------------------------------
(* validate_rate called directly on arbitrary records *)

\* 31.5
SomeFloat == Float([kind |-> "finite", neg |-> FALSE, mant |-> 315, scale |-> 1])

\* What a record may hold under rates.cash and rates.spot.
BuySellValues ==
    {Dict([buy |-> b, sell |-> s]) : b \in {None, SomeFloat}, s \in {None, SomeFloat}}
    \cup {Dict([buy |-> SomeFloat]), Dict([sell |-> None]),
          List(<<Str(KeyChars.buy), Str(KeyChars.sell)>>),
          List(<<Str(KeyChars.buy)>>),
          Str(KeyChars.buy \o <<" ">> \o KeyChars.sell),
          Str(KeyChars.sell),
          None}

RatesValues ==
    {Dict([cash |-> c, spot |-> s]) : c \in BuySellValues, s \in BuySellValues}
    \cup {Dict([cash |-> Dict([buy |-> None, sell |-> None])]),
          Dict([spot |-> Dict([buy |-> None, sell |-> None])]),
          List(<<Str(KeyChars.cash), Str(KeyChars.spot)>>),
          Str(KeyChars.cash \o KeyChars.spot),
          None}

CurrencyValues ==
    {Dict([en |-> Str(<<"U","S","D">>), zh |-> Str(<<"m","e","i">>)]),
     Dict([en |-> None, zh |-> None]),
     Dict([en |-> Str(<<"U","S","D">>)]),
     Dict([zh |-> Str(<<"m","e","i">>)]),
     List(<<Str(KeyChars.en), Str(KeyChars.zh)>>),
     Str(KeyChars.en \o KeyChars.zh),
     None}

TimestampValues == {Str(<<"t","1">>), None}

FullRecords ==
    {Dict([currency |-> c, rates |-> r, timestamp |-> t]) :
        c \in CurrencyValues, r \in RatesValues, t \in TimestampValues}

\* Records that lack one of the three top-level keys, and values that are no
\* dict at all.
RawRates ==
    FullRecords
    \cup {Dict([rates |-> r, timestamp |-> t]) :
             r \in RatesValues, t \in TimestampValues}
    \cup {Dict([currency |-> c, timestamp |-> t]) :
             c \in CurrencyValues, t \in TimestampValues}
    \cup {Dict([currency |-> c, rates |-> r]) :
             c \in CurrencyValues, r \in RatesValues}
    \cup {List(<<Str(KeyChars.currency), Str(KeyChars.rates), Str(KeyChars.timestamp)>>),
          Str(KeyChars.currency \o KeyChars.rates \o KeyChars.timestamp),
          None}

InitValidate ==
    /\ variant \in Variants
    /\ pc = "idle"
    /\ response = Unbound
    /\ html = Unbound
    /\ table = Unbound
    /\ rates = Unbound
    /\ exc = Unbound
    /\ outcome = Unbound
    /\ calls = <<>>
    /\ rate \in RawRates
    /\ verdict = Unbound
    /\ cell = Unbound
    /\ parsed = Unbound

CallValidateRate ==
    /\ verdict = Unbound
    /\ verdict' = Bool(validate_rate(rate))
    /\ UNCHANGED <<scrapeVars, rate, cell, parsed>>

SpecValidate == InitValidate /\ [][CallValidateRate]_vars

-----------------------------------------------------------------------------
(* _parse_rate called directly on arbitrary cell texts *)

MaxCellLen == 4

CellAlphabet == {"1", ",", ".", "-", " ", "N", "/", "A", "n", "a", "e"}

CellTexts == UNION {[1..n -> CellAlphabet] : n \in 0..MaxCellLen}

InitCell ==
    /\ variant \in Variants
    /\ pc = "idle"
    /\ response = Unbound
    /\ html = Unbound
    /\ table = Unbound
    /\ rates = Unbound
    /\ exc = Unbound
    /\ outcome = Unbound
    /\ calls = <<>>
    /\ rate = Unbound
    /\ verdict = Unbound
    /\ cell \in CellTexts
    /\ parsed = Unbound

CallParseRate ==
    /\ parsed = Unbound
    /\ parsed' = parse_rate_of(variant, Str(cell))
    /\ UNCHANGED <<scrapeVars, rate, verdict, cell>>

SpecCell == InitCell /\ [][CallParseRate]_vars

-----------------------------------------------------------------------------
(* Claims about scrape *)

\* A message holds a piece of text.
Contains(msg, piece) == \E i \in 1..Len(msg) : msg[i] = piece

\* A message holds another message, whole and in order.
ContainsMsg(msg, sub) ==
    \E i \in 0..(Len(msg) - Len(sub)) : SubSeq(msg, i + 1, i + Len(sub)) = sub

TypedKinds == {"FetchError", "ParseError", "ValidationError"}

\* C1: scrape() ends by returning a non-empty list whose records all pass
\* validate_rate, or by raising a ScraperException (FetchError, ParseError,
\* ValidationError or the generic one); it hands nothing else to its caller.
C1_ListOrScraperException ==
    /\ pc = "returned" =>
          /\ ~outcome.raised
          /\ outcome.value # <<>>
          /\ \A i \in 1..Len(outcome.value) : validate_rate(outcome.value[i])
    /\ pc = "raised" =>
          /\ outcome.raised
          /\ outcome.exc.type \in ScraperExceptionTypes
    /\ pc \notin {"returned", "raised"} => outcome = Unbound

C1_Witness_ReturnedTwoRates ==
    /\ pc = "returned"
    /\ Len(outcome.value) = 2

\* The fetch stage failed: the response has an error status, or the
\* transport raised.
FetchFailed ==
    /\ response # Unbound
    /\ IF response.kind = "raise"
       THEN response.exc.type \in RequestExceptionTypes
       ELSE response.status >= 400

\* C2: when the response has an error status or the transport raises, the
\* run goes to its except clauses with a FetchError, scrape() raises that
\* FetchError, and neither parse_rates nor validate_rate is invoked.
C2_FetchFailureSkipsParse ==
    FetchFailed =>
        /\ pc \in {"except", "raised"}
        /\ exc.type = "FetchError"
        /\ pc = "raised" => outcome = RaiseExc(exc)
        /\ \A i \in 1..Len(calls) : calls[i] \notin {"parse_rates", "validate_rate"}

C2_Witness_Status404Raised ==
    /\ pc = "raised"
    /\ response.kind = "response"
    /\ response.status = 404
    /\ outcome.exc.type = "FetchError"
    /\ calls = <<"fetch_data">>

\* No table of the document matches a selector of the variant: for BOT no
\* element of class "table" with a tbody, for CTBC no table with the id, the
\* class, the class rate-table or a class containing "rate".
NoTableMatches(v, doc) ==
    \A i \in 1..Len(doc.markup) :
        IF v = "BOT"
        THEN ~(doc.markup[i].tbody /\ HasClass(doc.markup[i], <<"t","a","b","l","e">>))
        ELSE /\ doc.markup[i].id # IdFx
             /\ ~HasClass(doc.markup[i], ClassFx)
             /\ ~HasClass(doc.markup[i], ClassRateTable)
             /\ ~HasRateClass(doc.markup[i])

\* C4: when no table of the fetched document matches a selector of the
\* variant, the run does not get past parsing, the exception that reaches
\* scrape()'s except clauses is a ParseError, and scrape() raises a ParseError.
C4_NoTableIsParseError ==
    (html # Unbound /\ NoTableMatches(variant, html)) =>
        /\ pc \in {"parse", "except", "raised"}
        /\ pc \in {"except", "raised"} => exc.type = "ParseError"
        /\ pc = "raised" => outcome.raised /\ outcome.exc.type = "ParseError"

C4_Witness_UnmatchedTableRaised ==
    /\ pc = "raised"
    /\ html # Unbound
    /\ Len(html.markup) = 2
    /\ html.markup[1].rows # <<>>
    /\ NoTableMatches(variant, html)
    /\ outcome.exc.type = "ParseError"

\* A row is well-formed: it names its currency and has at least 5 cells.
WellFormed(v, row) ==
    /\ Len(row.tds) >= 5
    /\ IF v = "BOT"
       THEN /\ row.cur.t = "Tag"
            /\ row.cur.contents # <<>>
            /\ row.cur.contents[1].t = "str"
            /\ row.cur.contents[Len(row.cur.contents)].t = "str"
            /\ \E i \in 1..Len(row.cur.contents[Len(row.cur.contents)].v) :
                  row.cur.contents[Len(row.cur.contents)].v[i] = "("
       ELSE \E i \in 1..(Len(row.tds[1]) - 1) :
               /\ row.tds[1][i] \notin Whitespace
               /\ row.tds[1][i + 1] \in Whitespace
               /\ \E j \in (i + 2)..Len(row.tds[1]) : row.tds[1][j] \notin Whitespace

\* The rows of the located table.
LocatedRows(v, doc) ==
    IF v = "BOT" THEN BOTScraper_select_rows(doc)
    ELSE IF CTBCScraper_find_table(doc) = 0 THEN <<>>
    ELSE doc.markup[CTBCScraper_find_table(doc)].rows

\* The rows of the located table that may hold a currency: for CTBC its
\* first row is the header.
DataRows(v, doc) ==
    IF v = "BOT" \/ LocatedRows(v, doc) = <<>> THEN LocatedRows(v, doc)
    ELSE Tail(LocatedRows(v, doc))

\* The currency code a well-formed row of the pages carries.
CodeOfRow(row) ==
    IF IsSubstring(<<"U","S","D">>, row.tds[1]) THEN <<"U","S","D">>
    ELSE <<"J","P","Y">>

\* The codes a parse of these rows is to give: one per well-formed row, in
\* row order.
ExpectedCodes(v, rows) ==
    LET wf == SelectSeq(rows, LAMBDA row : WellFormed(v, row))
    IN  [i \in 1..Len(wf) |-> CodeOfRow(wf[i])]

CodesOf(rs) == [i \in 1..Len(rs) |-> rs[i].v["currency"].v["en"].v]

\* parse_rates has run on the fetched document.
Parsed == html # Unbound /\ pc # "parse"

\* What a parse of these rows is to do: give one record per well-formed
\* row, in order, and none when no row is well-formed; scrape() then returns
\* as many records.
ParseGives(v, rows) ==
    /\ IF ExpectedCodes(v, rows) = <<>> THEN rates = Unbound
       ELSE rates # Unbound /\ CodesOf(rates.v) = ExpectedCodes(v, rows)
    /\ pc = "returned" => CodesOf(outcome.value) = ExpectedCodes(v, rows)

C9_UntypedIsWrapped ==
    pc = "raised" =>
        IF exc.type \in TypedKinds THEN outcome.exc = exc
        ELSE /\ outcome.exc.type = "ScraperException"
             /\ Contains(outcome.exc.msg, institution_name(variant))
             /\ ContainsMsg(outcome.exc.msg, exc.msg)

C9_Witness_MemoryErrorWrapped ==
    /\ pc = "raised"
    /\ exc.type = "MemoryError"
    /\ outcome.exc.type = "ScraperException"

\* C10: the message of every exception scrape() raises holds the scraper's
\* institution_name, and its type is that of the failing stage.
C10_MessageNamesInstitution ==
    pc = "raised" =>
        /\ Contains(outcome.exc.msg, institution_name(variant))
        /\ outcome.exc.type \in TypedKinds

\* CTBCScraper.parse_rates has run on the fetched document.
ParsedCTBC == variant = "CTBC" /\ Parsed

\* The first of the tables 1..n of the document that `pick` holds of, 0 when
\* there is none.
FirstTable(doc, pick) ==
    IF pick = {} THEN 0 ELSE CHOOSE i \in pick : \A j \in pick : i <= j

IdMatches(doc) == {i \in Tables(doc) : doc.markup[i].id = IdFx}

ClassMatches(doc) == {i \in Tables(doc) : HasClass(doc.markup[i], ClassFx)}

RateTableMatches(doc) ==
    {i \in Tables(doc) : HasClass(doc.markup[i], ClassRateTable)}

\* Tables with a class name that contains "rate", whatever its case.
HeuristicMatches(doc) ==
    {i \in Tables(doc) :
        \E c \in 1..Len(doc.markup[i].class) :
            \E k \in 0..(Len(doc.markup[i].class[c]) - 4) :
                Lower(SubSeq(doc.markup[i].class[c], k + 1, k + 4))
                    = <<"r","a","t","e">>}

\* The table the chain of three selectors gives: id, else class, else the
\* heuristic.
ChainOfThree(doc) ==
    IF IdMatches(doc) # {} THEN FirstTable(doc, IdMatches(doc))
    ELSE IF ClassMatches(doc) # {} THEN FirstTable(doc, ClassMatches(doc))
    ELSE FirstTable(doc, HeuristicMatches(doc))

\* The table the chain of four selectors gives: id, else class, else the
\* class rate-table, else the heuristic.
ChainOfFour(doc) ==
    IF IdMatches(doc) # {} THEN FirstTable(doc, IdMatches(doc))
    ELSE IF ClassMatches(doc) # {} THEN FirstTable(doc, ClassMatches(doc))
    ELSE IF RateTableMatches(doc) # {} THEN FirstTable(doc, RateTableMatches(doc))
    ELSE FirstTable(doc, HeuristicMatches(doc))

\* scrape() is raising the ParseError of the parse stage.
ParseFailed == ParsedCTBC /\ pc \in {"except", "raised"} /\ exc.type = "ParseError"

\* C11 as stated: the table CTBC takes its rows from is the first the id
\* selector matches, else the first the class selector matches, else the
\* first whose class name contains "rate"; and ParseError is raised only
\* when none of the three matches a table.
C11_ChainOfThreeSelectors ==
    /\ ParsedCTBC => table = ChainOfThree(html)
    /\ ParseFailed => ChainOfThree(html) = 0

\* C11 amended: the chain has a fourth selector, the class rate-table, tried
\* after the class selector and before the heuristic; a table matching a
\* later selector is never taken while a table matches an earlier one; and
\* ParseError is raised when no selector matches and also when the table
\* taken holds no well-formed data row.
C11_ChainOfFourSelectors ==
    /\ ParsedCTBC =>
          /\ table = ChainOfFour(html)
          /\ table \in IdMatches(html) \/ IdMatches(html) = {}
          /\ table \in IdMatches(html) \cup ClassMatches(html)
                \/ ClassMatches(html) = {}
          /\ table \in IdMatches(html) \cup ClassMatches(html)
                         \cup RateTableMatches(html)
                \/ RateTableMatches(html) = {}
    /\ ParseFailed =>
          \/ ChainOfFour(html) = 0
          \/ ExpectedCodes(variant, DataRows(variant, html)) = <<>>

\* The id selector wins over a heuristic match that comes first in the
\* document, and the rows are those of the table it found.
C11_Witness_IdAfterHeuristic ==
    /\ ParsedCTBC
    /\ pc = "returned"
    /\ Len(html.markup) = 2
    /\ 1 \in HeuristicMatches(html)
    /\ IdMatches(html) = {2}
    /\ table = 2
    /\ html.markup[1].rows = <<>>

\* How many times this invocation has called the stage method.
Invoked(name) == Cardinality({i \in 1..Len(calls) : calls[i] = name})

\* The calls a run makes when it gets to validate n records.
CallsUpTo(n) ==
    <<"fetch_data", "parse_rates">> \o [i \in 1..n |-> "validate_rate"]

\* C12: within one invocation fetch_data is invoked exactly once, parse_rates
\* at most once and only after fetch_data returned a non-empty document,
\* validate_rate only after parse_rates returned a non-empty list; once a
\* stage has failed, the calls made are those up to that stage and no more.
C12_NothingRetried ==
    /\ Invoked("fetch_data") = (IF pc \in {"idle", "fetch"} THEN 0 ELSE 1)
    /\ Invoked("parse_rates") <= 1
    /\ Invoked("parse_rates") = 1 =>
          /\ calls[1] = "fetch_data" /\ calls[2] = "parse_rates"
          /\ html # Unbound /\ html # EmptyHtml
          /\ response.text = html
    /\ Invoked("validate_rate") > 0 =>
          /\ rates # Unbound /\ rates.v # <<>>
          /\ calls = CallsUpTo(Len(rates.v))
    /\ pc \in {"except", "raised"} =>
          calls = IF html = Unbound THEN <<"fetch_data">>
                  ELSE IF rates = Unbound THEN <<"fetch_data", "parse_rates">>
                  ELSE CallsUpTo(Len(rates.v))

\* The parse stage failed and scrape() raised without another call.
C12_Witness_ParseFailedNoRetry ==
    /\ pc = "raised"
    /\ html # Unbound
    /\ outcome.exc.type = "ParseError"
    /\ calls = <<"fetch_data", "parse_rates">>

-----------------------------------------------------------------------------
(* Claims about validate_rate *)

IsMapping(x) == x.t = "dict"

HasKey(x, k) == IsMapping(x) /\ k \in DOMAIN x.v

\* Every key of the schema is present, each under a mapping.
AllKeysPresent(r) ==
    /\ \A k \in {"currency", "rates", "timestamp"} : HasKey(r, k)
    /\ \A k \in {"en", "zh"} : HasKey(r.v["currency"], k)
    /\ \A k \in {"cash", "spot"} : HasKey(r.v["rates"], k)
    /\ \A rt \in {"cash", "spot"} :
          \A k \in {"buy", "sell"} : HasKey(r.v["rates"].v[rt], k)

\* C6: validate_rate returns false when a top-level key (currency, rates,
\* timestamp) is missing and when rates.cash or rates.spot lacks buy or sell;
\* it returns true for a record with every key present, whatever the four
\* buy/sell values are, null included.
C6_MissingKeyVsNullValue ==
    verdict # Unbound =>
        /\ (IsMapping(rate)
              /\ \E k \in {"currency", "rates", "timestamp"} : ~HasKey(rate, k))
           => verdict = Bool(FALSE)
        /\ \A rt \in {"cash", "spot"} :
              (/\ HasKey(rate, "rates")
               /\ HasKey(rate.v["rates"], rt)
               /\ IsMapping(rate.v["rates"].v[rt])
               /\ \E k \in {"buy", "sell"} : ~HasKey(rate.v["rates"].v[rt], k))
              => verdict = Bool(FALSE)
        /\ AllKeysPresent(rate) => verdict = Bool(TRUE)

C6_Witness_AllNullAccepted ==
    /\ verdict # Unbound
    /\ AllKeysPresent(rate)
    /\ \A rt \in {"cash", "spot"} :
          \A k \in {"buy", "sell"} : rate.v["rates"].v[rt].v[k] = None
    /\ verdict = Bool(TRUE)

\* C7: every record validate_rate accepts has currency a mapping with en and
\* zh, rates a mapping with cash and spot, and each of rates.cash and
\* rates.spot a mapping with buy and sell.
C7_AcceptedIsValidatedRate ==
    verdict = Bool(TRUE) => AllKeysPresent(rate)

-----------------------------------------------------------------------------
(* Claims about _parse_rate *)

NoQuoteTokens ==
    {<<"-">>, <<"N","/","A">>, <<>>, <<"-","-","-","-">>, <<"-","-","-">>}

\* A text with no digit in it writes no number.
HasDigit(s) == \E i \in 1..Len(s) : IsDigit(s[i])

\* C8: _parse_rate of either class never raises, returns None for every
\* text that trims to one of "-", "N/A", "", "----", "---", and returns None
\* for every other non-numeric text.
C8_NonNumericIsAbsent ==
    parsed # Unbound =>
        /\ ~parsed.raised
        /\ Strip(cell) \in NoQuoteTokens => parsed.value = None
        /\ ~HasDigit(cell) => parsed.value = None

====
